---- MODULE Spec2Model ----
(***************************************************************************)
(* Identity resolution of nexiuslabs/lead_generation:                      *)
(*   app/auth.py                 key directory cache, token verifier,      *)
(*                               require_auth / require_identity /         *)
(*                               require_optional_identity                 *)
(*   app/odoo_connection_info.py tenant resolver                           *)
(*                                                                         *)
(* Three specifications share the variables:                               *)
(*   SpecCache   two threads calling _openid_config() / _jwks() through    *)
(*               functools.lru_cache, interleaved at the network fetches,  *)
(*               while the provider changes what it publishes;             *)
(*   Spec        the three request handlers, one request at a time (the    *)
(*               handlers are async functions whose body never awaits, so  *)
(*               one handler runs to completion on the event loop);        *)
(*   SpecTenant  _resolve_tenant_id against the external store.            *)
(***************************************************************************)
EXTENDS Integers, Sequences, FiniteSets, TLC

VARIABLES
    env,        \* os.environ as read by auth.py
    oidcCache,  \* the lru_cache slot of _openid_config
    jwksCache,  \* the lru_cache slot of _jwks
    pubDoc,     \* what the provider answers at the discovery URL
    pubJwks,    \* what the provider answers at the key directory URL
    epoch,      \* number of changes of the provider's published documents
    th,         \* SpecCache: per thread, the call in progress and its result
    last,       \* Spec: the request handled last and its outcome
    store,      \* SpecTenant: the external store and the configured DSN
    res         \* SpecTenant: the last _resolve_tenant_id call and its result

vars == <<env, oidcCache, jwksCache, pubDoc, pubJwks, epoch, th, last, store, res>>

\* Python's None, for values that are strings in the program
None == "<None>"

\* Bound: how many times the provider changes its published documents
MaxRotations == 2

-----------------------------------------------------------------------------
(* Strings.  The environment and header values are drawn from a finite     *)
(* alphabet of literals; str.strip and str.lower are tabulated on it.      *)

Strip(s) ==
    CASE s = " True "        -> "True"
      [] s = "   "           -> ""
      [] s = " https://idp " -> "https://idp"
      [] s = " api "         -> "api"
      [] s = " viewer "      -> "viewer"
      [] s = " 7 "           -> "7"
      [] s = " "             -> ""
      [] OTHER               -> s

Lower(s) ==
    CASE s = "True" -> "true"
      [] s = "YES"  -> "yes"
      [] s = "On"   -> "on"
      [] OTHER      -> s

\* bool(s) of a str-or-None value
Truthy(s) == s # None /\ s # ""

is_truthy(val) ==
    IF val = None THEN FALSE
    ELSE Lower(Strip(val)) \in {"1", "true", "yes", "on"}

\* _issuer(): the stripped issuer, or HTTP 500 when unset or blank
issuer_ok(e) == Truthy(e.issuer) /\ Truthy(Strip(e.issuer))

issuer(e) == Strip(e.issuer)

audience(e) ==
    LET raw == IF Truthy(e.audience) THEN e.audience ELSE ""
    IN  IF Truthy(Strip(raw)) THEN Strip(raw) ELSE None

-----------------------------------------------------------------------------
(* JSON documents of the provider.                                         *)
(* kind "obj"    a JSON object                                             *)
(* kind "nonobj" JSON that parses but is no object and is truthy           *)
(*               (a non-empty array, a string, a number)                   *)
(* kind "falsy"  JSON that parses to a falsy non-object (null, [], 0, "")  *)
(* kind "empty"  no value: an empty cache slot                             *)

EmptyDoc == [kind |-> "empty", jwks_uri |-> None]

DocWithUri == [kind |-> "obj", jwks_uri |-> "https://idp/keys"]

DocNoUri == [kind |-> "obj", jwks_uri |-> None]

DocNonObj == [kind |-> "nonobj", jwks_uri |-> None]

Docs == {DocWithUri, DocNoUri, DocNonObj}

Jwk(k, okMaterial) == [kid |-> k, material |-> okMaterial]

EmptyJwks == [kind |-> "empty", keys |-> <<>>]

JwksK1 == [kind |-> "obj", keys |-> <<Jwk("k1", TRUE)>>]

JwksK1K2 == [kind |-> "obj", keys |-> <<Jwk("k1", TRUE), Jwk("k2", TRUE)>>]

JwksBadMaterial == [kind |-> "obj", keys |-> <<Jwk("k1", FALSE)>>]

JwksNonObj == [kind |-> "nonobj", keys |-> <<>>]

JwksFalsy == [kind |-> "falsy", keys |-> <<>>]

JwksDocs == {JwksK1, JwksK1K2, JwksBadMaterial, JwksNonObj, JwksFalsy}

\* How one httpx.get ends: the three failures of the try block, or a body
\* that resp.json() parses
Outcomes == {"ok", "network_error", "bad_status", "not_json"}

-----------------------------------------------------------------------------
(* Key directory cache: the bodies of _openid_config and _jwks and the     *)
(* lru_cache(maxsize=1) wrapper around each.                               *)

\* lru_cache stores a result only when the call returned, and only when no
\* other caller stored one for the same key while the call was running
\* faulty variant: every returning call replaces the stored value
lru_store_overwrite(slot, v) == v

\* faulty variant: the result is never stored
lru_store_never(slot, v) == slot

lru_store(slot, v) == IF slot.kind = "empty" THEN v ELSE slot

\* try: resp = httpx.get(url); resp.raise_for_status(); return resp.json()
\* except Exception: raise HTTPException(500)
fetch_status(outcome) == IF outcome = "ok" THEN "ok" ELSE "http500"

\* _openid_config().get("jwks_uri") raises AttributeError unless the
\* document is a JSON object
doc_usable(doc) == doc.kind = "obj"

\* jwks_uri = doc.get("jwks_uri") or f"{_issuer()}/protocol/openid-connect/certs"
jwks_url(doc, e) ==
    IF Truthy(doc.jwks_uri) THEN doc.jwks_uri ELSE "issuer/certs"

jwks_url_status(doc, e) ==
    IF ~doc_usable(doc) THEN "fault"
    ELSE IF Truthy(doc.jwks_uri) \/ issuer_ok(e) THEN "ok" ELSE "http500"

\* _openid_config() run to completion by one caller: the value returned and
\* the slot afterwards.  o is how the fetch ends if one is made, pub what
\* the provider publishes then.
openid_config(slot, e, o, pub) ==
    IF slot.kind # "empty" THEN [status |-> "ok", val |-> slot, slot |-> slot]
    ELSE IF ~issuer_ok(e) THEN [status |-> "http500", val |-> EmptyDoc, slot |-> slot]
    ELSE IF fetch_status(o) # "ok"
         THEN [status |-> fetch_status(o), val |-> EmptyDoc, slot |-> slot]
    ELSE [status |-> "ok", val |-> pub, slot |-> lru_store(slot, pub)]

\* _jwks() run to completion by one caller
jwks(jslot, dslot, e, od, oj, pd, pj) ==
    IF jslot.kind # "empty"
    THEN [status |-> "ok", val |-> jslot, jslot |-> jslot, dslot |-> dslot]
    ELSE LET d == openid_config(dslot, e, od, pd)
             failed(st) == [status |-> st, val |-> EmptyJwks,
                            jslot |-> jslot, dslot |-> d.slot]
         IN  IF d.status # "ok" THEN failed(d.status)
             ELSE IF jwks_url_status(d.val, e) # "ok"
                  THEN failed(jwks_url_status(d.val, e))
             ELSE IF fetch_status(oj) # "ok" THEN failed(fetch_status(oj))
             ELSE [status |-> "ok", val |-> pj,
                   jslot |-> lru_store(jslot, pj), dslot |-> d.slot]

-----------------------------------------------------------------------------
(* Token verifier.  A token is what jwt sees of it:                        *)
(*   wellformed  jwt.get_unverified_header parses it                       *)
(*   kid         the header's key-id (None: absent)                        *)
(*   sig         the RS256 signature verifies under the key published for  *)
(*               kid                                                       *)
(*   iss, aud, expired   the registered claims jwt.decode validates        *)
(*   tenant_id, has_roles, roles   the payload claims the handlers read    *)

GoodToken ==
    [wellformed |-> TRUE, kid |-> "k1", sig |-> TRUE, iss |-> "https://idp",
     aud |-> "api", expired |-> FALSE, email |-> "tok@x", tenant_id |-> "42",
     has_roles |-> TRUE, roles |-> <<"member">>]

Tokens ==
    {GoodToken,
     [GoodToken EXCEPT !.wellformed = FALSE],
     [GoodToken EXCEPT !.kid = None],
     [GoodToken EXCEPT !.kid = "k2"],
     [GoodToken EXCEPT !.kid = "k9", !.sig = FALSE],
     [GoodToken EXCEPT !.sig = FALSE],
     [GoodToken EXCEPT !.iss = "https://evil"],
     [GoodToken EXCEPT !.aud = None],
     [GoodToken EXCEPT !.aud = "other"],
     [GoodToken EXCEPT !.expired = TRUE],
     [GoodToken EXCEPT !.aud = "other", !.expired = TRUE],
     [GoodToken EXCEPT !.tenant_id = None, !.has_roles = FALSE, !.roles = <<>>],
     [GoodToken EXCEPT !.tenant_id = "0"]}

\* index of the first key of the list whose kid is k, 0 when there is none
first_match(keys, k) ==
    IF \E i \in 1..Len(keys) : keys[i].kid = k
    THEN CHOOSE i \in 1..Len(keys) :
            /\ keys[i].kid = k
            /\ \A j \in 1..(i - 1) : keys[j].kid # k
    ELSE 0

\* (_jwks() or {}).get("keys", []) and the loop of lines 61-67, on the
\* value _jwks() returned
key_lookup(val, kid) ==
    IF val.kind = "nonobj" THEN "fault"
    ELSE LET keys == IF val.kind = "obj" THEN val.keys ELSE <<>>
             i == first_match(keys, kid)
         IN  IF i = 0 THEN "http401"
             ELSE IF keys[i].material THEN "ok" ELSE "http500"

\* _public_key_for_token: status, and the caches afterwards.  J is the
\* outcome _jwks() has if it is called.
public_key_for_token(token, jslot, dslot, J) ==
    IF ~token.wellformed \/ ~Truthy(token.kid)
    THEN [status |-> "http401", consulted |-> EmptyJwks, jslot |-> jslot, dslot |-> dslot]
    ELSE [status |-> IF J.status = "ok" THEN key_lookup(J.val, token.kid) ELSE J.status,
          consulted |-> J.val, jslot |-> J.jslot, dslot |-> J.dslot]

\* the checks of jwt.decode(token, key, algorithms=["RS256"], audience=aud,
\* issuer=iss, options={"verify_aud": bool(aud)})
\* faulty variant: verify_aud is always off
decode_ok_never_aud(token, aud, iss) ==
    token.sig /\ ~token.expired /\ token.iss = iss

decode_ok(token, aud, iss) ==
    /\ token.sig
    /\ ~token.expired
    /\ token.iss = iss
    /\ Truthy(aud) => token.aud = aud

TokenClaims(token) ==
    [sub |-> token.email, email |-> token.email, tenant_id |-> token.tenant_id,
     has_roles |-> token.has_roles, roles |-> token.roles, flag |-> "none"]

NoClaims ==
    [sub |-> None, email |-> None, tenant_id |-> None,
     has_roles |-> FALSE, roles |-> <<>>, flag |-> "none"]

\* verify_jwt
verify_jwt(token, e, jslot, dslot, J) ==
    LET k == public_key_for_token(token, jslot, dslot, J)
        st == IF k.status # "ok" THEN k.status
              ELSE IF ~issuer_ok(e) THEN "http500"
              ELSE IF decode_ok(token, audience(e), issuer(e)) THEN "ok"
              ELSE "http401"
    IN  [status |-> st,
         claims |-> IF st = "ok" THEN TokenClaims(token) ELSE NoClaims,
         consulted |-> k.consulted, jslot |-> k.jslot, dslot |-> k.dslot]

-----------------------------------------------------------------------------
(* The process environment.                                                *)

ProdEnv ==
    [bypass |-> None, issuer |-> "https://idp", audience |-> None,
     dev_email |-> None, default_tenant |-> None]

\* Environments of SpecCache: only NEXIUS_ISSUER is read by the cache
CacheEnvs ==
    {[ProdEnv EXCEPT !.issuer = i] : i \in {"https://idp", " https://idp ", "   ", None}}

\* Environments of Spec
Envs ==
    {ProdEnv,
     [ProdEnv EXCEPT !.audience = "api"],
     [ProdEnv EXCEPT !.issuer = " https://idp ", !.audience = "   "],
     [ProdEnv EXCEPT !.issuer = None, !.bypass = "0"],
     [ProdEnv EXCEPT !.issuer = "   ", !.bypass = ""],
     [ProdEnv EXCEPT !.bypass = " True ", !.issuer = None,
                     !.dev_email = "env@x", !.default_tenant = "9"],
     [ProdEnv EXCEPT !.bypass = "YES"],
     [ProdEnv EXCEPT !.bypass = "enabled", !.audience = " api ",
                     !.dev_email = "env@x", !.default_tenant = "9"]}

-----------------------------------------------------------------------------
(* Requests.  A header that is absent is None.  The Authorization header   *)
(* is its first seven characters ("scheme") and the rest ("token").        *)

NoHeaders ==
    [scheme |-> None, token |-> GoodToken,
     x_email |-> None, x_roles |-> None, x_tenant |-> None]

DevHeaders ==
    [NoHeaders EXCEPT !.x_email = "u@x", !.x_roles = "viewer", !.x_tenant = "7"]

Bearer(hdrs, tok) == [hdrs EXCEPT !.scheme = "Bearer ", !.token = tok]

Requests ==
    {NoHeaders, DevHeaders,
     [NoHeaders EXCEPT !.x_roles = " viewer ,,editor", !.x_tenant = "abc"],
     [NoHeaders EXCEPT !.x_email = "", !.x_roles = ", ,", !.x_tenant = " 7 "],
     [DevHeaders EXCEPT !.x_roles = ""],
     [DevHeaders EXCEPT !.scheme = "Basic dX"],
     [DevHeaders EXCEPT !.scheme = "bearer "]}
    \cup {Bearer(NoHeaders, tok) : tok \in Tokens}
    \cup {Bearer(DevHeaders, tok) :
            tok \in {GoodToken, [GoodToken EXCEPT !.kid = "k2"],
                     [GoodToken EXCEPT !.expired = TRUE]}}

\* request.headers.get(name, "")
header_or_empty(v) == IF v = None THEN "" ELSE v

\* auth.startswith("Bearer ")
has_bearer(req) == header_or_empty(req.scheme) = "Bearer "

\* roles_hdr.split(",")
Split(s) ==
    CASE s = ""                 -> <<"">>
      [] s = " viewer ,,editor" -> <<" viewer ", "", "editor">>
      [] s = ", ,"              -> <<"", " ", "">>
      [] OTHER                  -> <<s>>

RECURSIVE strip_nonempty(_)
\* [r.strip() for r in parts if r.strip()]
strip_nonempty(parts) ==
    IF parts = <<>> THEN <<>>
    ELSE IF Strip(Head(parts)) # ""
         THEN <<Strip(Head(parts))>> \o strip_nonempty(Tail(parts))
         ELSE strip_nonempty(Tail(parts))

\* faulty variant: no default role
roles_from_header_no_default(hdr) ==
    strip_nonempty(Split(header_or_empty(hdr)))

\* [r.strip() for r in roles_hdr.split(",") if r.strip()] or ["admin"]
roles_from_header(hdr) ==
    LET rs == strip_nonempty(Split(header_or_empty(hdr)))
    IN  IF rs = <<>> THEN <<"admin">> ELSE rs

\* int(tenant_raw) if tenant_raw is not None else None, None on ValueError
tenant_from_raw(raw) ==
    IF raw = None THEN None
    ELSE IF Strip(raw) \in {"0", "7", "9", "42"} THEN Strip(raw)
    ELSE None

\* the identity synthesized from headers and environment (lines 92-106,
\* 132-146 and 183-191); flag is "bypass" or "optional"
synthesized(req, e, flag) ==
    LET email == IF Truthy(req.x_email) THEN req.x_email
                 ELSE IF e.dev_email = None THEN "dev@local" ELSE e.dev_email
        raw == IF Truthy(req.x_tenant) THEN req.x_tenant ELSE e.default_tenant
    IN  [sub |-> email, email |-> email, tenant_id |-> tenant_from_raw(raw),
         has_roles |-> TRUE, roles |-> roles_from_header(req.x_roles),
         flag |-> flag]

\* request.state before a handler ran
NoCtx == [tenant_set |-> FALSE, tenant_id |-> None, roles_set |-> FALSE, roles |-> <<>>]

\* request.state.tenant_id = claims.get("tenant_id");
\* request.state.roles = claims.get("roles", [])
ctx_of(claims) ==
    [tenant_set |-> TRUE, tenant_id |-> claims.tenant_id,
     roles_set |-> TRUE, roles |-> IF claims.has_roles THEN claims.roles ELSE <<>>]

\* what a handler call leaves: its status, the claims returned (on "ok"),
\* request.state, the key set consulted and the two cache slots
Outcome(st, claims, ctx, V, jslot, dslot) ==
    [status |-> st, claims |-> IF st = "ok" THEN claims ELSE NoClaims, ctx |-> ctx,
     consulted |-> V.consulted, jslot |-> jslot, dslot |-> dslot]

NotVerified == [consulted |-> EmptyJwks]

\* bool(tenant_id) of a claim value
tenant_truthy(tid) == tid # None /\ tid # "0"

\* faulty variant: the bypass is taken whatever DEV_AUTH_BYPASS holds
bypass_on_always(e) == TRUE

bypass_on(e) == is_truthy(e.bypass)

\* faulty variant: the tenant_id check of line 118 is left out
verified_path_tenant_optional(req, e, jslot, dslot, J, need_tenant) ==
    IF ~has_bearer(req)
    THEN Outcome("http401", NoClaims, NoCtx, NotVerified, jslot, dslot)
    ELSE LET V == verify_jwt(req.token, e, jslot, dslot, J)
         IN  IF V.status # "ok"
             THEN Outcome(V.status, NoClaims, NoCtx, V, V.jslot, V.dslot)
             ELSE Outcome("ok", V.claims, ctx_of(V.claims), V, V.jslot, V.dslot)

\* the production path of require_auth and require_identity (lines 112-120
\* and 152-158); need_tenant distinguishes the two
verified_path(req, e, jslot, dslot, J, need_tenant) ==
    IF ~has_bearer(req)
    THEN Outcome("http401", NoClaims, NoCtx, NotVerified, jslot, dslot)
    ELSE LET V == verify_jwt(req.token, e, jslot, dslot, J)
         IN  IF V.status # "ok"
             THEN Outcome(V.status, NoClaims, NoCtx, V, V.jslot, V.dslot)
             ELSE IF need_tenant /\ ~tenant_truthy(V.claims.tenant_id)
                  THEN Outcome("http403", NoClaims, ctx_of(V.claims), V, V.jslot, V.dslot)
                  ELSE Outcome("ok", V.claims, ctx_of(V.claims), V, V.jslot, V.dslot)

bypass_path(req, e, jslot, dslot) ==
    LET c == synthesized(req, e, "bypass")
    IN  Outcome("ok", c, ctx_of(c), NotVerified, jslot, dslot)

require_auth(req, e, jslot, dslot, J) ==
    IF bypass_on(e) THEN bypass_path(req, e, jslot, dslot)
    ELSE verified_path(req, e, jslot, dslot, J, TRUE)

require_identity(req, e, jslot, dslot, J) ==
    IF bypass_on(e) THEN bypass_path(req, e, jslot, dslot)
    ELSE verified_path(req, e, jslot, dslot, J, FALSE)

\* except HTTPException: the statuses the handler of line 176 catches
caught(st) == st \in {"http401", "http403", "http500"}

require_optional_identity(req, e, jslot, dslot, J) ==
    LET c == synthesized(req, e, "optional")
    IN  IF has_bearer(req) /\ Truthy(e.issuer)
        THEN LET V == verify_jwt(req.token, e, jslot, dslot, J)
             IN  IF V.status = "ok"
                 THEN Outcome("ok", V.claims, ctx_of(V.claims), V, V.jslot, V.dslot)
                 ELSE IF caught(V.status)
                      THEN Outcome("ok", c, ctx_of(c), V, V.jslot, V.dslot)
                      ELSE Outcome(V.status, NoClaims, NoCtx, V, V.jslot, V.dslot)
        ELSE Outcome("ok", c, ctx_of(c), NotVerified, jslot, dslot)

-----------------------------------------------------------------------------
(* SpecCache: threads calling the two cached functions.                    *)

Threads == {"t1", "t2"}

IdleThread ==
    [pc |-> "idle", op |-> "none", sawDoc |-> FALSE, sawJwks |-> FALSE,
     fd |-> FALSE, fj |-> FALSE, seen |-> 0, url |-> None,
     status |-> "none", rdoc |-> EmptyDoc, rjwks |-> EmptyJwks]

\* a call that ends: with a value, with HTTPException(500), or with an
\* exception that is no HTTPException ("fault")
Ended(rec, st) == [rec EXCEPT !.pc = "ret", !.status = st]

\* line 42, once _openid_config() has returned doc: compute the key
\* directory URL, then go and fetch it
after_doc(rec, doc) ==
    LET st == jwks_url_status(doc, env)
    IN  IF st = "ok"
        THEN [rec EXCEPT !.pc = "fetch_jwks", !.url = jwks_url(doc, env)]
        ELSE Ended(rec, st)

\* a thread calls _openid_config()
CallDiscovery(t) ==
    /\ th[t].pc = "idle"
    /\ LET rec == [IdleThread EXCEPT !.op = "disc",
                       !.sawDoc = (oidcCache.kind # "empty"),
                       !.sawJwks = (jwksCache.kind # "empty")]
       IN  th' = [th EXCEPT ![t] =
                IF oidcCache.kind # "empty"
                THEN [Ended(rec, "ok") EXCEPT !.rdoc = oidcCache]
                ELSE IF ~issuer_ok(env) THEN Ended(rec, "http500")
                ELSE [rec EXCEPT !.pc = "fetch_doc"]]
    /\ UNCHANGED <<env, oidcCache, jwksCache, pubDoc, pubJwks, epoch, last, store, res>>

\* a thread calls _jwks()
CallJwks(t) ==
    /\ th[t].pc = "idle"
    /\ LET rec == [IdleThread EXCEPT !.op = "jwks",
                       !.sawDoc = (oidcCache.kind # "empty"),
                       !.sawJwks = (jwksCache.kind # "empty")]
       IN  th' = [th EXCEPT ![t] =
                IF jwksCache.kind # "empty"
                THEN [Ended(rec, "ok") EXCEPT !.rjwks = jwksCache]
                ELSE IF oidcCache.kind # "empty" THEN after_doc(rec, oidcCache)
                ELSE IF ~issuer_ok(env) THEN Ended(rec, "http500")
                ELSE [rec EXCEPT !.pc = "fetch_doc"]]
    /\ UNCHANGED <<env, oidcCache, jwksCache, pubDoc, pubJwks, epoch, last, store, res>>

\* the discovery fetch of a thread answers (lines 33-37) and lru_cache
\* stores the value returned
FetchDoc(t) ==
    /\ th[t].pc = "fetch_doc"
    /\ \E o \in Outcomes :
        LET rec == [th[t] EXCEPT !.fd = TRUE]
        IN  IF fetch_status(o) # "ok"
            THEN /\ th' = [th EXCEPT ![t] = Ended(rec, fetch_status(o))]
                 /\ UNCHANGED oidcCache
            ELSE /\ oidcCache' = lru_store(oidcCache, pubDoc)
                 /\ th' = [th EXCEPT ![t] =
                        IF rec.op = "disc"
                        THEN [Ended(rec, "ok") EXCEPT !.rdoc = pubDoc]
                        ELSE after_doc(rec, pubDoc)]
    /\ UNCHANGED <<env, jwksCache, pubDoc, pubJwks, epoch, last, store, res>>

\* the key directory fetch of a thread answers (lines 44-49) and lru_cache
\* stores the value returned
FetchJwks(t) ==
    /\ th[t].pc = "fetch_jwks"
    /\ \E o \in Outcomes :
        LET rec == [th[t] EXCEPT !.fj = TRUE, !.seen = epoch]
        IN  IF fetch_status(o) # "ok"
            THEN /\ th' = [th EXCEPT ![t] = Ended(rec, fetch_status(o))]
                 /\ UNCHANGED jwksCache
            ELSE /\ jwksCache' = lru_store(jwksCache, pubJwks)
                 /\ th' = [th EXCEPT ![t] = [Ended(rec, "ok") EXCEPT !.rjwks = pubJwks]]
    /\ UNCHANGED <<env, oidcCache, pubDoc, pubJwks, epoch, last, store, res>>

\* the caller takes the result; the thread is free for the next call
Return(t) ==
    /\ th[t].pc = "ret"
    /\ th' = [th EXCEPT ![t] = IdleThread]
    /\ UNCHANGED <<env, oidcCache, jwksCache, pubDoc, pubJwks, epoch, last, store, res>>

\* the provider publishes another discovery document or key set (a key
\* rotation, a reconfiguration, a broken deployment)
Publishes(d, j) ==
    /\ <<d, j>> # <<pubDoc, pubJwks>>
    /\ pubDoc' = d
    /\ pubJwks' = j

Rotate ==
    /\ epoch < MaxRotations
    /\ \E d \in Docs, j \in JwksDocs : Publishes(d, j)
    /\ epoch' = epoch + 1
    /\ UNCHANGED <<env, oidcCache, jwksCache, th, last, store, res>>

NoRequest == [h |-> "none"]

NoStore == [dsn |-> None, connections |-> {}, users |-> {}]

NoRes == [called |-> FALSE]

InitCache ==
    /\ env \in CacheEnvs
    /\ oidcCache = EmptyDoc
    /\ jwksCache = EmptyJwks
    /\ pubDoc \in Docs
    /\ pubJwks \in JwksDocs
    /\ epoch = 0
    /\ th = [t \in Threads |-> IdleThread]
    /\ last = NoRequest
    /\ store = NoStore
    /\ res = NoRes

NextCache ==
    \/ \E t \in Threads : CallDiscovery(t)
    \/ \E t \in Threads : CallJwks(t)
    \/ \E t \in Threads : FetchDoc(t)
    \/ \E t \in Threads : FetchJwks(t)
    \/ \E t \in Threads : Return(t)
    \/ Rotate

SpecCache == InitCache /\ [][NextCache]_vars

-----------------------------------------------------------------------------
(* Spec: the request handlers, one request at a time.                      *)

\* whether handler h reaches the call of _jwks() for this request
reaches_jwks(h, req, e) ==
    /\ has_bearer(req)
    /\ req.token.wellformed /\ Truthy(req.token.kid)
    /\ IF h = "require_optional_identity" THEN Truthy(e.issuer) ELSE ~bypass_on(e)

\* the ways the fetch into a slot can end, for a request that can make it
FetchOutcomes(h, req, slot) ==
    IF reaches_jwks(h, req, env) /\ slot.kind = "empty" /\ jwksCache.kind = "empty"
    THEN Outcomes ELSE {"ok"}

Handlers == {"require_auth", "require_identity", "require_optional_identity"}

handler(h, req, e, jslot, dslot, J) ==
    CASE h = "require_auth" -> require_auth(req, e, jslot, dslot, J)
      [] h = "require_identity" -> require_identity(req, e, jslot, dslot, J)
      [] h = "require_optional_identity" ->
            require_optional_identity(req, e, jslot, dslot, J)

\* one request handled by handler h, fetches included; last holds the
\* response until it is sent, with how the fetches of the call ended (od
\* for the discovery document, oj for the key set)
Handle(h) ==
    \E req \in Requests :
    \E od \in FetchOutcomes(h, req, oidcCache), oj \in FetchOutcomes(h, req, jwksCache) :
    \E J \in {jwks(jwksCache, oidcCache, env, od, oj, pubDoc, pubJwks)} :
    \E r \in {handler(h, req, env, jwksCache, oidcCache, J)} :
        /\ last' = [h |-> h, req |-> req, status |-> r.status, claims |-> r.claims,
                    ctx |-> r.ctx, consulted |-> r.consulted, od |-> od, oj |-> oj]
        /\ jwksCache' = r.jslot
        /\ oidcCache' = r.dslot

RequireAuth ==
    /\ last.h = "none"
    /\ Handle("require_auth")
    /\ UNCHANGED <<env, pubDoc, pubJwks, epoch, th, store, res>>

RequireIdentity ==
    /\ last.h = "none"
    /\ Handle("require_identity")
    /\ UNCHANGED <<env, pubDoc, pubJwks, epoch, th, store, res>>

RequireOptionalIdentity ==
    /\ last.h = "none"
    /\ Handle("require_optional_identity")
    /\ UNCHANGED <<env, pubDoc, pubJwks, epoch, th, store, res>>

\* the response is sent and the request, with its request.state, is gone
Respond ==
    /\ last.h # "none"
    /\ last' = NoRequest
    /\ UNCHANGED <<env, oidcCache, jwksCache, pubDoc, pubJwks, epoch, th, store, res>>

\* the provider publishes another discovery document or key set
ProviderChange ==
    /\ \E d \in Docs, j \in JwksDocs : Publishes(d, j)
    /\ UNCHANGED <<env, oidcCache, jwksCache, epoch, th, last, store, res>>

Init ==
    /\ env \in Envs
    /\ oidcCache = EmptyDoc
    /\ jwksCache = EmptyJwks
    /\ pubDoc \in Docs
    /\ pubJwks \in JwksDocs
    /\ epoch = 0
    /\ th = [t \in Threads |-> IdleThread]
    /\ last = NoRequest
    /\ store = NoStore
    /\ res = NoRes

Next ==
    \/ RequireAuth
    \/ RequireIdentity
    \/ RequireOptionalIdentity
    \/ Respond
    \/ ProviderChange

Spec == Init /\ [][Next]_vars

-----------------------------------------------------------------------------
(* SpecTenant: _resolve_tenant_id against the external store.              *)
(* store.dsn          settings.ODOO_POSTGRES_DSN                           *)
(* store.connections  the rows of odoo_connections                         *)
(* store.users        the rows of tenant_users                             *)

Dsns ==
    {None, "", "postgresql://h/odoo_a", "postgresql://h/odoo_b",
     "postgresql://h", "postgresql://h/", "postgresql://[h/odoo_a"}

\* urlparse(dsn).path; urlparse raises ValueError on an unbalanced bracket
url_parses(dsn) == dsn # "postgresql://[h/odoo_a"

url_path(dsn) ==
    CASE dsn = "postgresql://h/odoo_a" -> "/odoo_a"
      [] dsn = "postgresql://h/odoo_b" -> "/odoo_b"
      [] dsn = "postgresql://h/"       -> "/"
      [] OTHER                         -> ""

\* str.lstrip("/")
lstrip_slash(path) ==
    CASE path = "/odoo_a" -> "odoo_a"
      [] path = "/odoo_b" -> "odoo_b"
      [] path = "/"       -> ""
      [] OTHER            -> path

\* _infer_db_from_dsn
infer_db_from_dsn(dsn) ==
    IF ~Truthy(dsn) THEN None
    ELSE IF ~url_parses(dsn) THEN None
    ELSE LET path == lstrip_slash(IF url_path(dsn) = "" THEN "/" ELSE url_path(dsn))
         IN  IF path = "" THEN None ELSE path

Conn(t, d, a) == [tenant_id |-> t, db_name |-> d, active |-> a]

ConnRows ==
    {Conn("1", "odoo_a", TRUE), Conn("2", "odoo_b", TRUE),
     Conn("3", "odoo_a", FALSE), Conn("4", "odoo_c", TRUE)}

UserRows ==
    {[user_id |-> "a@b.com", tenant_id |-> "7"],
     [user_id |-> "c@d.com", tenant_id |-> "8"]}

Emails == {"a@b.com", "c@d.com", "x@y.com"}

ClaimTids == {None, "42", "0"}

\* SELECT tenant_id FROM odoo_connections WHERE db_name=%s AND active=TRUE
by_db(rows, db) == {r \in rows : r.db_name = db /\ r.active}

\* SELECT tenant_id, db_name FROM odoo_connections WHERE active=TRUE
active_rows(rows) == {r \in rows : r.active}

\* SELECT tenant_id FROM tenant_users WHERE user_id=%s
by_user(rows, email) == {r \in rows : r.user_id = email}

\* the answers a query with LIMIT 1 can give: the tenant of any matching
\* row, None when no row matches
limit_one(rows) == IF rows = {} THEN {None} ELSE {r.tenant_id : r \in rows}

\* a lookup in try/except Exception: pass; failed says the store raised
\* faulty variant: the exception of the store is not caught
tolerated_raises(failed, answer) == IF failed THEN "raise" ELSE answer

tolerated(failed, answer) == IF failed THEN None ELSE answer

\* lines 27-51: the tenant the connection string and odoo_connections
\* give; a1 is the answer of the first query, rows2 those of the second
\* faulty variant: the single active mapping is also tried after the
\* lookup by database name gave nothing
config_step_falls_through(dsn, a1, rows2, failed) ==
    LET single == IF Cardinality(rows2) = 1
                  THEN (CHOOSE r \in rows2 : TRUE).tenant_id ELSE None
    IN  IF Truthy(infer_db_from_dsn(dsn)) /\ tolerated(failed, a1) # None
        THEN tolerated(failed, a1)
        ELSE tolerated(failed, single)

config_step(dsn, a1, rows2, failed) ==
    IF Truthy(infer_db_from_dsn(dsn))
    THEN tolerated(failed, a1)
    ELSE tolerated(failed,
            IF Cardinality(rows2) = 1
            THEN (CHOOSE r \in rows2 : TRUE).tenant_id ELSE None)

\* _resolve_tenant_id: a1 and a3 are the answers of the first and the
\* third query, f12 and f3 whether the store raised in them
\* faulty variant: the email's mapping is consulted first
resolve_tenant_id_email_first(email, claim_tid, dsn, a1, rows2, a3, f12, f3) ==
    LET c == config_step(dsn, a1, rows2, f12)
    IN  IF tolerated(f3, a3) # None THEN tolerated(f3, a3)
        ELSE IF c # None THEN c
        ELSE claim_tid

resolve_tenant_id(email, claim_tid, dsn, a1, rows2, a3, f12, f3) ==
    LET c == config_step(dsn, a1, rows2, f12)
    IN  IF c # None THEN c
        ELSE IF claim_tid # None THEN claim_tid
        ELSE tolerated(f3, a3)

\* one call of _resolve_tenant_id
ResolveTenantId ==
    /\ ~res.called
    /\ \E email \in Emails, claim_tid \in ClaimTids, f12 \in BOOLEAN, f3 \in BOOLEAN :
       \E a1 \in limit_one(by_db(store.connections, infer_db_from_dsn(store.dsn))),
          a3 \in limit_one(by_user(store.users, email)) :
            res' = [called |-> TRUE, email |-> email, claim_tid |-> claim_tid,
                    f12 |-> f12, f3 |-> f3,
                    result |-> resolve_tenant_id(email, claim_tid, store.dsn, a1,
                                    active_rows(store.connections), a3, f12, f3)]
    /\ UNCHANGED <<env, oidcCache, jwksCache, pubDoc, pubJwks, epoch, th, last, store>>

\* the caller takes the result
ResolveReturns ==
    /\ res.called
    /\ res' = NoRes
    /\ UNCHANGED <<env, oidcCache, jwksCache, pubDoc, pubJwks, epoch, th, last, store>>

\* the store's owner activates, deactivates, adds or removes a mapping
StoreChanges ==
    /\ ~res.called
    /\ \E c \in SUBSET ConnRows, u \in SUBSET UserRows :
        /\ <<c, u>> # <<store.connections, store.users>>
        /\ store' = [store EXCEPT !.connections = c, !.users = u]
    /\ UNCHANGED <<env, oidcCache, jwksCache, pubDoc, pubJwks, epoch, th, last, res>>

InitTenant ==
    /\ env = ProdEnv
    /\ oidcCache = EmptyDoc
    /\ jwksCache = EmptyJwks
    /\ pubDoc = DocWithUri
    /\ pubJwks = JwksK1
    /\ epoch = 0
    /\ th = [t \in Threads |-> IdleThread]
    /\ last = NoRequest
    /\ store \in [dsn : Dsns, connections : {{}}, users : {{}}]
    /\ res = NoRes

NextTenant ==
    \/ ResolveTenantId
    \/ ResolveReturns
    \/ StoreChanges

SpecTenant == InitTenant /\ [][NextTenant]_vars

-----------------------------------------------------------------------------
(* Claims about the key directory cache, checked under SpecCache.          *)

Filled(slot) == slot.kind # "empty"

\* the step in which the call of thread t ends
Ends(t) == th[t].pc # "ret" /\ th'[t].pc = "ret"

C1_Step ==
    /\ Filled(oidcCache) => oidcCache' = oidcCache
    /\ Filled(jwksCache) => jwksCache' = jwksCache
    /\ \A t \in Threads : Ends(t) =>
        LET r == th'[t]
        IN  /\ (r.status = "ok" /\ r.op = "disc") => Filled(oidcCache')
            /\ (r.status = "ok" /\ r.op = "jwks") => Filled(jwksCache')
            /\ r.sawDoc => ~r.fd
            /\ (r.op = "disc" /\ r.sawDoc) =>
                    r.status = "ok" /\ r.rdoc = oidcCache
            /\ (r.op = "jwks" /\ r.sawJwks) =>
                    r.status = "ok" /\ r.rjwks = jwksCache /\ ~r.fd /\ ~r.fj

\* C1: a successful return of _openid_config (_jwks) leaves its slot
\* filled; a filled slot never changes; a call that starts with its slot
\* filled returns the slot's value and fetches nothing, whatever the
\* provider publishes by then.
C1_CachedValueIsFinal == [][C1_Step]_vars

\* C1 witness: a call of _jwks has returned the cached key set without a
\* fetch while the provider publishes another key set
C1_Witness ==
    \E t \in Threads :
        /\ th[t].pc = "ret" /\ th[t].op = "jwks" /\ th[t].sawJwks
        /\ th[t].rjwks = jwksCache /\ ~th[t].fj
        /\ pubJwks # jwksCache /\ epoch > 0

\* a call that performed a fetch and did not return a value
FailedAfterFetch(r) == r.pc = "ret" /\ (r.fd \/ r.fj) /\ r.status # "ok"

\* C2: a call whose fetch does not yield a usable document ends with the
\* service-configuration error (HTTP 500), and a cache slot holds nothing
\* or a well-formed document (a JSON object), never a malformed one.
C2_FailedFetchNotCached ==
    /\ \A t \in Threads : FailedAfterFetch(th[t]) => th[t].status = "http500"
    /\ oidcCache.kind \in {"empty", "obj"}
    /\ jwksCache.kind \in {"empty", "obj"}

\* two calls of _jwks that both found the slot empty, both fetched and both
\* returned a key set
Raced(t, u) ==
    /\ t # u
    /\ th[t].pc = "ret" /\ th[t].op = "jwks" /\ th[t].fj /\ th[t].status = "ok"
    /\ th[u].pc = "ret" /\ th[u].op = "jwks" /\ th[u].fj /\ th[u].status = "ok"

\* C5 as stated: two racing first calls of _jwks return identical content,
\* and the slot holds that content.
C5_RaceIdenticalAlways ==
    \A t, u \in Threads : Raced(t, u) =>
        th[t].rjwks = th[u].rjwks /\ jwksCache = th[t].rjwks

\* C5 amended: two racing first calls of _jwks whose fetches were answered
\* with no change of the provider's published key set in between return
\* identical content, and the slot holds that content.
C5_RaceIdenticalIfUnchanged ==
    \A t, u \in Threads : (Raced(t, u) /\ th[t].seen = th[u].seen) =>
        th[t].rjwks = th[u].rjwks /\ jwksCache = th[t].rjwks

\* C5 witness: both racing calls have returned a key set fetched in the
\* same epoch of the provider
C5_Witness ==
    \E t, u \in Threads :
        /\ Raced(t, u) /\ th[t].seen = th[u].seen
        /\ th[t].rjwks = JwksK1K2 /\ jwksCache = JwksK1K2

-----------------------------------------------------------------------------
(* Claims about the token verifier and the handlers, checked under Spec.   *)

\* DEV_AUTH_BYPASS is unset or none of the values that enable the bypass
FlagDisabled == env.bypass \in {None, "", "0", "enabled"}

\* the response in flight is of one of the two strict handlers, run with
\* the bypass disabled
StrictResponse ==
    /\ last.h \in {"require_auth", "require_identity"}
    /\ FlagDisabled

\* the handler presented the bearer token's key-id to a key set it got
\* from the cache or from a fetch
LookedUp ==
    /\ has_bearer(last.req)
    /\ last.req.token.wellformed
    /\ Truthy(last.req.token.kid)
    /\ last.consulted.kind # "empty"

KidPresent(val, kid) ==
    val.kind = "obj" /\ \E i \in 1..Len(val.keys) : val.keys[i].kid = kid

\* C3: a bearer token whose key-id is not in the key set consulted fails
\* verification with HTTP 401, and the strict handlers then attach neither
\* tenant-id nor roles to request.state.
C3_UnknownKidUnauthenticated ==
    (StrictResponse /\ LookedUp /\ ~KidPresent(last.consulted, last.req.token.kid))
        => (last.status = "http401" /\ last.ctx = NoCtx)

\* C3 restricted to key sets that are JSON objects or falsy values
C3_UnknownKidWellFormedSet ==
    (StrictResponse /\ LookedUp /\ last.consulted.kind # "nonobj"
        /\ ~KidPresent(last.consulted, last.req.token.kid))
        => (last.status = "http401" /\ last.ctx = NoCtx)

\* the key-id of the token selected a key with usable material, and the
\* token's signature and issuer are correct
SignedAndIssued ==
    /\ LookedUp
    /\ key_lookup(last.consulted, last.req.token.kid) = "ok"
    /\ last.req.token.sig
    /\ last.req.token.iss = Strip(env.issuer)

AudienceConfigured == env.audience \in {"api", " api "}

VerifySucceeded == last.status \in {"ok", "http403"}

C4_WitnessRefused ==
    /\ StrictResponse /\ SignedAndIssued
    /\ AudienceConfigured /\ last.req.token.aud = "other" /\ ~last.req.token.expired
    /\ last.status = "http401"

\* C9: require_optional_identity always returns an identity; when the
\* bearer token does not verify, the identity and request.state are the
\* ones synthesized from headers and environment, flagged "optional".
C9_OptionalNeverFails ==
    last.h = "require_optional_identity" =>
        /\ last.status = "ok"
        /\ last.claims # TokenClaims(last.req.token) =>
            /\ last.claims = synthesized(last.req, env, "optional")
            /\ last.ctx = ctx_of(last.claims)

\* the bearer token of the request verified against the key set consulted
Verified ==
    /\ SignedAndIssued
    /\ ~last.req.token.expired
    /\ AudienceConfigured => last.req.token.aud = "api"

\* C10: with the bypass disabled, the strict handlers return an identity
\* only for a verified bearer token, the identity is the token's, and
\* whatever they attach to request.state comes from the token.
C10_NoBypassWhenDisabled ==
    StrictResponse =>
        /\ last.status = "ok" =>
            /\ Verified
            /\ last.claims = TokenClaims(last.req.token)
            /\ last.claims.flag # "bypass"
        /\ last.ctx # NoCtx =>
            /\ Verified
            /\ last.ctx = ctx_of(TokenClaims(last.req.token))

\* C10 witness: bypass flag set to a value that does not enable it, dev
\* headers and environment defaults present, identity taken from the token
C10_Witness ==
    /\ StrictResponse /\ env.bypass = "enabled" /\ env.default_tenant = "9"
    /\ last.req.x_tenant = "7" /\ last.req.x_roles = "viewer"
    /\ last.status = "ok" /\ last.claims.tenant_id = "42"
    /\ last.ctx.roles = <<"member">>

\* what the other strict handler answers to the request in flight, from the
\* caches as they are now
Replayed(h) ==
    handler(h, last.req, env, jwksCache, oidcCache,
            jwks(jwksCache, oidcCache, env, "ok", "ok", pubDoc, pubJwks))

\* the claims lack a tenant identifier: absent, or the falsy 0
LacksTenant(claims) == claims.tenant_id \in {None, "0"}

\* C11 as stated: every identity require_auth returns carries a tenant-id;
\* it fails with HTTP 403 exactly when the claims it would return lack one,
\* and require_identity returns those claims for the same request.
C11_TenantRequiredAlways ==
    /\ (last.h = "require_auth" /\ last.status = "ok") => ~LacksTenant(last.claims)
    /\ (last.h = "require_auth" /\ last.status = "http403") =>
            /\ Replayed("require_identity").status = "ok"
            /\ LacksTenant(Replayed("require_identity").claims)
    /\ (last.h = "require_identity" /\ last.status = "ok" /\ LacksTenant(last.claims)) =>
            Replayed("require_auth").status = "http403"

\* C11 in verified mode: with the bypass disabled, every identity
\* require_auth returns carries a tenant-id; it fails with HTTP 403 exactly
\* when the verified claims lack one, and require_identity returns those
\* claims, tenant-id absent, for the same request.
C11_TenantRequiredVerified ==
    /\ (last.h = "require_auth" /\ FlagDisabled /\ last.status = "ok") =>
            ~LacksTenant(last.claims)
    /\ (last.h = "require_auth" /\ last.status = "http403") =>
            /\ FlagDisabled /\ Verified
            /\ LacksTenant(TokenClaims(last.req.token))
            /\ Replayed("require_identity").status = "ok"
            /\ Replayed("require_identity").claims = TokenClaims(last.req.token)
    /\ (last.h = "require_identity" /\ FlagDisabled /\ last.status = "ok"
            /\ LacksTenant(last.claims)) =>
            Replayed("require_auth").status = "http403"

\* C11 witness: require_auth refuses a verified token without tenant_id
\* with 403, request.state already set
C11_Witness ==
    /\ last.h = "require_auth" /\ FlagDisabled /\ Verified
    /\ last.req.token.tenant_id = None
    /\ last.status = "http403" /\ last.ctx.tenant_set

\* C11 second witness state: require_identity returns the claims of such a
\* token
C11_WitnessIdentity ==
    /\ last.h = "require_identity" /\ FlagDisabled /\ Verified
    /\ last.req.token.tenant_id = None
    /\ last.status = "ok" /\ last.claims.tenant_id = None

\* the handler got as far as asking for the key set
AskedForKeys ==
    /\ has_bearer(last.req)
    /\ last.req.token.wellformed
    /\ Truthy(last.req.token.kid)

\* causes of failure that lie in the configuration
IssuerNotConfigured == AskedForKeys /\ env.issuer \in {None, "", "   "}

DiscoveryUnreachable ==
    AskedForKeys /\ ~IssuerNotConfigured /\ last.od # "ok"

KeyDirectoryUnreachable ==
    /\ AskedForKeys /\ ~IssuerNotConfigured
    /\ last.od = "ok" /\ oidcCache.kind = "obj" /\ last.oj # "ok"

ConfigurationCause ==
    IssuerNotConfigured \/ DiscoveryUnreachable \/ KeyDirectoryUnreachable

\* causes of failure that lie in the credential
MissingBearer == ~has_bearer(last.req)

MalformedHeader == has_bearer(last.req) /\ ~last.req.token.wellformed

NoKeyId ==
    has_bearer(last.req) /\ last.req.token.wellformed /\ ~Truthy(last.req.token.kid)

NoMatchingKey == LookedUp /\ ~KidPresent(last.consulted, last.req.token.kid)

MalformedKeyMaterial ==
    /\ LookedUp /\ KidPresent(last.consulted, last.req.token.kid)
    /\ ~last.consulted.keys[first_match(last.consulted.keys, last.req.token.kid)].material

VerificationFailure ==
    /\ LookedUp /\ KidPresent(last.consulted, last.req.token.kid)
    /\ ~MalformedKeyMaterial
    /\ \/ ~last.req.token.sig
       \/ last.req.token.iss # Strip(env.issuer)
       \/ last.req.token.expired
       \/ AudienceConfigured /\ last.req.token.aud # "api"

\* C12: in require_auth and require_identity, every failure whose cause is
\* the configuration (issuer not configured, discovery or key directory
\* unreachable) is an HTTP 500, and every failure whose cause is the
\* credential (missing bearer header, malformed token header, no key-id,
\* no matching key, malformed key material, signature/issuer/audience/
\* expiry failure) is an HTTP 401.
C12_ClassificationAsStated ==
    StrictResponse =>
        /\ ConfigurationCause => last.status = "http500"
        /\ (MissingBearer \/ MalformedHeader \/ NoKeyId \/ NoMatchingKey
                \/ MalformedKeyMaterial \/ VerificationFailure)
            => last.status = "http401"

\* C12 on key sets that are JSON objects or falsy values, with malformed
\* key material counted as a server-side failure: the two classes are
\* exactly the causes listed.
C12_ClassificationWellFormedSet ==
    (StrictResponse /\ last.consulted.kind # "nonobj") =>
        /\ (ConfigurationCause \/ MalformedKeyMaterial) => last.status = "http500"
        /\ (MissingBearer \/ MalformedHeader \/ NoKeyId \/ NoMatchingKey
                \/ VerificationFailure)
            => last.status = "http401"
        /\ last.status = "http500" => (ConfigurationCause \/ MalformedKeyMaterial)
        /\ last.status = "http401" =>
                (MissingBearer \/ MalformedHeader \/ NoKeyId \/ NoMatchingKey
                    \/ VerificationFailure)

\* the code's answer to malformed key material
C12_MalformedKeyMaterialIs500 ==
    (StrictResponse /\ MalformedKeyMaterial) => last.status = "http500"

\* an identity was returned for the request in flight
Returned == last.h # "none" /\ last.status = "ok"

\* the identity returned was synthesized from headers and environment
Synthesized == last.claims.flag \in {"bypass", "optional"}

\* no role is supplied by the X-User-Roles header: absent, empty, or
\* separators and blanks only
NoRolesHeader == last.req.x_roles \in {None, "", ", ,"}

AdminOnly == last.claims.roles = <<"admin">> /\ last.ctx.roles = <<"admin">>

\* C13 as stated: for every identity the three handlers return, when no
\* roles were supplied (header for a synthesized identity, roles claim for
\* a verified token) the roles in the claims and in request.state are
\* exactly the default "admin"; roles are never empty.
C13_RolesDefaultAlways ==
    Returned =>
        /\ (Synthesized /\ NoRolesHeader) => AdminOnly
        /\ (~Synthesized /\ ~last.req.token.has_roles) => AdminOnly
        /\ last.ctx.roles # <<>>

\* C13 for synthesized identities: when the header supplies no roles the
\* roles in the claims and in request.state are exactly "admin", and
\* synthesized roles are never empty; a verified token's roles are taken
\* as they are, request.state.roles being empty without a roles claim.
C13_RolesDefaultSynthesized ==
    Returned =>
        /\ Synthesized =>
                /\ NoRolesHeader => AdminOnly
                /\ last.claims.roles # <<>>
                /\ last.ctx.roles = last.claims.roles
        /\ ~Synthesized =>
                /\ last.claims = TokenClaims(last.req.token)
                /\ last.req.token.has_roles => last.ctx.roles = last.req.token.roles
                /\ ~last.req.token.has_roles => last.ctx.roles = <<>>

\* C13 witness: require_optional_identity falls back from a token that
\* does not verify, there is no roles header, the roles are the default
C13_Witness ==
    /\ last.h = "require_optional_identity" /\ Returned
    /\ has_bearer(last.req) /\ last.claims.flag = "optional"
    /\ last.req.x_roles = None /\ AdminOnly

\* C13 second witness state: bypass mode, empty roles header
C13_WitnessBypass ==
    /\ last.h = "require_auth" /\ Returned /\ last.claims.flag = "bypass"
    /\ last.req.x_roles = ", ," /\ AdminOnly

-----------------------------------------------------------------------------
(* Claims about the tenant resolver, checked under SpecTenant.             *)

ActiveTenants == {r.tenant_id : r \in active_rows(store.connections)}

UserTenants(email) == {r.tenant_id : r \in by_user(store.users, email)}

\* C6 as stated: a connection string is configured, exactly one mapping is
\* active and no tenant is claimed: the result is that mapping's tenant
\* (the store answering every lookup).
C6_SingleMappingAsStated ==
    (res.called /\ Truthy(store.dsn) /\ res.claim_tid = None
        /\ Cardinality(active_rows(store.connections)) = 1
        /\ ~res.f12 /\ ~res.f3)
        => res.result \in ActiveTenants

\* the connection string names no database, or the database of the one
\* active mapping
DsnAgrees ==
    \/ infer_db_from_dsn(store.dsn) = None
    \/ \A r \in active_rows(store.connections) : r.db_name = infer_db_from_dsn(store.dsn)

\* C6 amended: as stated, provided the connection string names no database
\* or the database of that mapping, and the store answers the lookup.
C6_SingleMappingSameDb ==
    (res.called /\ Truthy(store.dsn) /\ res.claim_tid = None
        /\ Cardinality(active_rows(store.connections)) = 1
        /\ DsnAgrees /\ ~res.f12)
        => res.result \in ActiveTenants

\* C6 witness: the connection string names the database of the one active
\* mapping, the email is mapped to another tenant, and the mapping's
\* tenant is returned
C6_Witness ==
    /\ res.called /\ store.dsn = "postgresql://h/odoo_a" /\ res.claim_tid = None
    /\ active_rows(store.connections) = {Conn("1", "odoo_a", TRUE)}
    /\ res.email = "a@b.com" /\ UserTenants("a@b.com") = {"7"}
    /\ res.result = "1"

\* the connection string and the database mappings give no tenant
ConfigYieldsNothing ==
    \/ res.f12
    \/ /\ infer_db_from_dsn(store.dsn) = None
       /\ Cardinality(active_rows(store.connections)) # 1
    \/ /\ infer_db_from_dsn(store.dsn) # None
       /\ by_db(store.connections, infer_db_from_dsn(store.dsn)) = {}

\* C7: when the connection string and the database mappings give no
\* tenant, a claimed tenant-id is returned whatever the email's mapping;
\* without a claim the result is the email's mapping, which is returned
\* whenever the store answers, and nothing when there is no mapping.
C7_ClaimThenEmail ==
    (res.called /\ ConfigYieldsNothing) =>
        /\ res.claim_tid # None => res.result = res.claim_tid
        /\ res.claim_tid = None =>
            /\ res.result \in UserTenants(res.email) \cup {None}
            /\ UserTenants(res.email) = {} => res.result = None
            /\ (UserTenants(res.email) # {} /\ ~res.f3) => res.result # None

\* C7 witness: no database inferred, two active mappings, a claim and a
\* mapped email: the claim is returned
C7_Witness ==
    /\ res.called /\ infer_db_from_dsn(store.dsn) = None
    /\ Cardinality(active_rows(store.connections)) = 2
    /\ res.claim_tid = "42" /\ UserTenants(res.email) = {"7"} /\ ~res.f3
    /\ res.result = "42"

\* C8: a store failure in a lookup is that lookup giving no answer: the
\* call returns a tenant-id or nothing, never an error; after a failed
\* connection lookup the claim and then the email still decide, and with
\* every lookup failed and no claim the result is nothing.
C8_StoreFailureTolerated ==
    res.called =>
        /\ res.result # "raise"
        /\ (res.f12 /\ res.claim_tid # None) => res.result = res.claim_tid
        /\ (res.f12 /\ res.claim_tid = None /\ ~res.f3) =>
                /\ res.result \in UserTenants(res.email) \cup {None}
                /\ UserTenants(res.email) # {} => res.result # None
        /\ (res.f3 /\ res.claim_tid = None /\ ConfigYieldsNothing) => res.result = None

\* C8 witness: both lookups raise, a mapping and a user row exist, no
\* claim: the call returns nothing
C8_Witness ==
    /\ res.called /\ res.f12 /\ res.f3 /\ res.claim_tid = None
    /\ Cardinality(active_rows(store.connections)) = 1
    /\ UserTenants(res.email) # {}
    /\ res.result = None

\* a database name is inferred from the connection string and the lookup
\* of its mapping gives nothing: no active mapping of that name, or the
\* store fails
NamedDbYieldsNothing ==
    /\ infer_db_from_dsn(store.dsn) # None
    /\ \/ by_db(store.connections, infer_db_from_dsn(store.dsn)) = {}
       \/ res.f12

\* C14: when a database name is inferred and the lookup of its mapping
\* gives nothing, the single active mapping is not used even if there is
\* exactly one: the result is the claimed tenant-id if supplied, else the
\* email's mapping (if the store answers), else nothing; and the single
\* active mapping is used when no database name can be inferred.
C14_SingleMappingOnlyWithoutDb ==
    res.called =>
        /\ NamedDbYieldsNothing =>
            /\ res.claim_tid # None => res.result = res.claim_tid
            /\ (res.claim_tid = None /\ ~res.f3 /\ UserTenants(res.email) # {}) =>
                    res.result \in UserTenants(res.email)
            /\ (res.claim_tid = None /\ (res.f3 \/ UserTenants(res.email) = {})) =>
                    res.result = None
        /\ (infer_db_from_dsn(store.dsn) = None /\ ~res.f12
                /\ Cardinality(active_rows(store.connections)) = 1) =>
            res.result \in ActiveTenants

\* C14 witness: the connection string names odoo_a, whose only mapping is
\* inactive; exactly one mapping is active, of another database; no claim
\* and no mapping of the email: the result is nothing
C14_Witness ==
    /\ res.called /\ store.dsn = "postgresql://h/odoo_a" /\ ~res.f12 /\ ~res.f3
    /\ store.connections = {Conn("3", "odoo_a", FALSE), Conn("2", "odoo_b", TRUE)}
    /\ res.claim_tid = None /\ UserTenants(res.email) = {}
    /\ res.result = None

\* C14 second witness state: the store fails in the lookup by name while
\* the one active mapping is of that name; the claim is returned
C14_WitnessStoreFails ==
    /\ res.called /\ store.dsn = "postgresql://h/odoo_a" /\ res.f12
    /\ active_rows(store.connections) = {Conn("1", "odoo_a", TRUE)}
    /\ res.claim_tid = "42" /\ res.result = "42"

====
